---- MODULE Spec2Model ----
(***************************************************************************)
(* CryptoPriceServer: the price-resolution pipeline (cache plus three      *)
(* ordered providers) and the Solana wallet trade analyzer of              *)
(* crypto-ts-mcp-server.                                                   *)
(*                                                                         *)
(* Strings that the code transforms (ids, comma-separated id lists) are    *)
(* sequences of one-character strings.  Numbers that the code computes     *)
(* with floating point are modelled exactly: a finite decimal is a record  *)
(* [m, e] standing for m / 10^e, a quotient is a reduced fraction.         *)
(***************************************************************************)
EXTENDS Integers, Sequences, FiniteSets, TLC

VARIABLES
    priceCache,   \* the entries of priceCache: normalized id -> [data, timestamp]
    now,          \* Date.now(), in ms
    ticks,        \* number of clock steps taken so far
    tasks,        \* the price tool invocations being served, in order of arrival
    started,      \* number of price tool invocations made so far
    inFlightMax,  \* how many invocations the host keeps open at a time
    ops,          \* the wallet tool invocations being served
    opsStarted,   \* number of wallet tool invocations made so far
    transaction,  \* a transaction of the feed, for the analysis of a single swap
    wallet,       \* the wallet address of that analysis
    analyzed,     \* what analyzeWallet returns for it
    asked,        \* a getCryptoPrice call suspended at a provider, and the answer
    quoted        \* what the call comes to with that answer

priceVars == <<priceCache, tasks, started, inFlightMax>>

walletVars == <<ops, opsStarted>>

swapVars == <<transaction, wallet, analyzed>>

quoteVars == <<asked, quoted>>

vars == <<priceCache, now, ticks, tasks, started, inFlightMax,
          ops, opsStarted, transaction, wallet, analyzed, asked, quoted>>

----------------------------------------------------------------------------
(* Bounds of the model *)

MaxTicks == 2
MaxStarted == 2

NoTransaction == [isNull |-> TRUE]

NotAnalyzed == [kind |-> "pending"]

NotAsked == [pc |-> "idle"]

NotQuoted == [kind |-> "pending"]

----------------------------------------------------------------------------
(* Characters and the string functions of the code *)

LowerChars ==
    <<"a","b","c","d","e","f","g","h","i","j","k","l","m",
      "n","o","p","q","r","s","t","u","v","w","x","y","z">>

UpperChars ==
    <<"A","B","C","D","E","F","G","H","I","J","K","L","M",
      "N","O","P","Q","R","S","T","U","V","W","X","Y","Z">>

IndexIn(c, s) ==
    IF \E i \in 1..Len(s) : s[i] = c
    THEN CHOOSE i \in 1..Len(s) : s[i] = c
    ELSE 0

lowerOf == [c \in {UpperChars[i] : i \in 1..Len(UpperChars)} |->
               LowerChars[IndexIn(c, UpperChars)]]

upperOf == [c \in {LowerChars[i] : i \in 1..Len(LowerChars)} |->
               UpperChars[IndexIn(c, LowerChars)]]

toLowerChar(c) == IF c \in DOMAIN lowerOf THEN lowerOf[c] ELSE c

toUpperChar(c) == IF c \in DOMAIN upperOf THEN upperOf[c] ELSE c

toLowerCase(s) == [i \in 1..Len(s) |-> toLowerChar(s[i])]

toUpperCase(s) == [i \in 1..Len(s) |-> toUpperChar(s[i])]

RECURSIVE trimStart(_)
trimStart(s) ==
    IF s # <<>> /\ Head(s) = " " THEN trimStart(Tail(s)) ELSE s

RECURSIVE trimEnd(_)
trimEnd(s) ==
    IF s # <<>> /\ s[Len(s)] = " " THEN trimEnd(SubSeq(s, 1, Len(s) - 1)) ELSE s

trim(s) == trimEnd(trimStart(s))

\* s.split(sep): the pieces of s between the occurrences of the character sep
RECURSIVE split(_, _)
split(s, sep) ==
    IF IndexIn(sep, s) = 0
    THEN <<s>>
    ELSE <<SubSeq(s, 1, IndexIn(sep, s) - 1)>>
         \o split(SubSeq(s, IndexIn(sep, s) + 1, Len(s)), sep)

\* s.replace(/-/g, to): every "-" replaced by the string to
RECURSIVE replaceHyphens(_, _)
replaceHyphens(s, to) ==
    IF s = <<>> THEN <<>>
    ELSE (IF Head(s) = "-" THEN to ELSE <<Head(s)>>) \o replaceHyphens(Tail(s), to)

\* id.charAt(0).toUpperCase() + id.slice(1).replace(/-/g, ' ')
titleName(id) ==
    IF id = <<>> THEN <<>>
    ELSE <<toUpperChar(id[1])>> \o replaceHyphens(Tail(id), <<" ">>)

\* id.toUpperCase().replace(/-/g, '')
plainSymbol(id) == replaceHyphens(toUpperCase(id), <<>>)

\* id.includes('-') ? id.split('-')[0].toUpperCase() : id.toUpperCase()
symbolGuess(id) ==
    IF IndexIn("-", id) > 0 THEN toUpperCase(split(id, "-")[1]) ELSE toUpperCase(id)

\* const id = cryptoId.toLowerCase().trim()
normalizeId(cryptoId) == trim(toLowerCase(cryptoId))

----------------------------------------------------------------------------
(* The price resolver: priceCache, CACHE_TTL, POPULAR_CRYPTOS, getCryptoPrice *)

CACHE_TTL == 60000

POPULAR_CRYPTOS ==
    <<"bitcoin", "ethereum", "solana", "cardano",
      "dogecoin", "xrp", "polkadot", "shiba-inu",
      "bnb", "tron", "litecoin", "polygon", "avalanche-2">>

\* The ids for which the primary branch sets a fixed name and symbol
KnownCryptos ==
    << [id |-> <<"b","i","t","c","o","i","n">>,
        name |-> <<"B","i","t","c","o","i","n">>, symbol |-> <<"B","T","C">>],
       [id |-> <<"e","t","h","e","r","e","u","m">>,
        name |-> <<"E","t","h","e","r","e","u","m">>, symbol |-> <<"E","T","H">>],
       [id |-> <<"s","o","l","a","n","a">>,
        name |-> <<"S","o","l","a","n","a">>, symbol |-> <<"S","O","L">>],
       [id |-> <<"c","a","r","d","a","n","o">>,
        name |-> <<"C","a","r","d","a","n","o">>, symbol |-> <<"A","D","A">>],
       [id |-> <<"d","o","g","e","c","o","i","n">>,
        name |-> <<"D","o","g","e","c","o","i","n">>, symbol |-> <<"D","O","G","E">>],
       [id |-> <<"x","r","p">>,
        name |-> <<"X","R","P">>, symbol |-> <<"X","R","P">>],
       [id |-> <<"p","o","l","k","a","d","o","t">>,
        name |-> <<"P","o","l","k","a","d","o","t">>, symbol |-> <<"D","O","T">>],
       [id |-> <<"l","i","t","e","c","o","i","n">>,
        name |-> <<"L","i","t","e","c","o","i","n">>, symbol |-> <<"L","T","C">>] >>

\* let name = ...; let symbol = ...; if (id === 'bitcoin') {...} else if ...
primaryNameSymbol(id) ==
    IF \E i \in 1..Len(KnownCryptos) : KnownCryptos[i].id = id
    THEN LET k == KnownCryptos[CHOOSE i \in 1..Len(KnownCryptos) : KnownCryptos[i].id = id]
         IN  [name |-> k.name, symbol |-> k.symbol]
    ELSE [name |-> titleName(id), symbol |-> plainSymbol(id)]

(* A price field of a provider payload: absent, a JSON number or a JSON      *)
(* string; v is the numeric value in thousandths of a dollar.                *)
AbsentField == [ty |-> "absent", v |-> 0]

PriceValues == {0, 12345}

PriceFields ==
    {AbsentField} \cup [ty : {"number", "string"}, v : PriceValues]

\* JavaScript truthiness of a price field (a numeric string is never empty)
truthy(f) ==
    \/ f.ty = "string"
    \/ f.ty = "number" /\ f.v # 0

\* parseFloat(parseFloat(x).toFixed(2)), in cents
toFixed2(v) ==
    IF v >= 0 THEN (v + 5) \div 10 ELSE 0 - ((5 - v) \div 10)

(* What an axios.get can do: reject (timeout, network error, a status        *)
(* outside 2xx such as 429 or 500), or resolve with a 2xx status and a body. *)
AxiosErrors == {"timeout", "status429", "status500"}

Statuses == {200, 204}

PrimaryResponses ==
    [kind : {"error"}, why : AxiosErrors, status : {0}, usd : {AbsentField}]
    \cup [kind : {"response"}, why : {"none"}, status : Statuses, usd : PriceFields]

CoinCapNames == {<<"R","i","p","p","l","e">>}

CoinCapSymbols == {<<"X","R","P">>}

SecondaryResponses ==
    [kind : {"error"}, why : AxiosErrors, status : {0}, priceUsd : {AbsentField},
     name : CoinCapNames, symbol : CoinCapSymbols]
    \cup [kind : {"response"}, why : {"none"}, status : Statuses, priceUsd : PriceFields,
          name : CoinCapNames, symbol : CoinCapSymbols]

TertiaryResponses ==
    [kind : {"error"}, why : AxiosErrors, status : {0}, USD : {AbsentField}]
    \cup [kind : {"response"}, why : {"none"}, status : Statuses, USD : PriceFields]

\* response.status === 200 && response.data && response.data[id] && response.data[id].usd
primarySuccess(r) == r.kind = "response" /\ r.status = 200 /\ truthy(r.usd)

\* coinCapResponse.status === 200 && coinCapResponse.data?.data?.priceUsd
secondarySuccess(r) == r.kind = "response" /\ r.status = 200 /\ truthy(r.priceUsd)

\* cryptoCompareResponse.status === 200 && cryptoCompareResponse.data?.USD
tertiarySuccess(r) == r.kind = "response" /\ r.status = 200 /\ truthy(r.USD)

primaryQuote(id, r) ==
    [kind |-> "quote",
     name |-> primaryNameSymbol(id).name,
     symbol |-> primaryNameSymbol(id).symbol,
     price |-> toFixed2(r.usd.v),
     currency |-> "USD",
     source |-> "coingecko-api"]

\* Variant: the CoinCap branch labels its result with the primary's name
secondaryQuoteMislabelled(id, r) ==
    [kind |-> "quote",
     name |-> r.name,
     symbol |-> r.symbol,
     price |-> toFixed2(r.priceUsd.v),
     currency |-> "USD",
     source |-> "coingecko-api"]

secondaryQuote(id, r) ==
    [kind |-> "quote",
     name |-> r.name,
     symbol |-> r.symbol,
     price |-> toFixed2(r.priceUsd.v),
     currency |-> "USD",
     source |-> "coincap-api"]

tertiaryQuote(id, r) ==
    [kind |-> "quote",
     name |-> titleName(id),
     symbol |-> symbolGuess(id),
     price |-> toFixed2(r.USD.v),
     currency |-> "USD",
     source |-> "cryptocompare-api"]

\* Variant: the error names the normalized id instead of the input
errorResultNormalized(cryptoId) ==
    [kind |-> "error",
     input |-> normalizeId(cryptoId),
     suggestions |-> SubSeq(POPULAR_CRYPTOS, 1, 5)]

\* return { error: `Could not get price for "${cryptoId}" ... ${POPULAR_CRYPTOS.slice(0, 5).join(', ')}...` }
errorResult(cryptoId) ==
    [kind |-> "error",
     input |-> cryptoId,
     suggestions |-> SubSeq(POPULAR_CRYPTOS, 1, 5)]

\* Variant: the age test reversed
cacheHitReversed(cache, id, time) ==
    id \in DOMAIN cache /\ (time - cache[id].timestamp) > CACHE_TTL

\* Variant: an entry whose age equals the TTL still counts as fresh
cacheHitInclusive(cache, id, time) ==
    id \in DOMAIN cache /\ (time - cache[id].timestamp) <= CACHE_TTL

\* priceCache[id] && (Date.now() - priceCache[id].timestamp) < CACHE_TTL
cacheHit(cache, id, time) ==
    id \in DOMAIN cache /\ (time - cache[id].timestamp) < CACHE_TTL

\* priceCache[id] = { data: result, timestamp: Date.now() }
cachePut(cache, id, result, time) ==
    [k \in DOMAIN cache \cup {id} |->
        IF k = id THEN [data |-> result, timestamp |-> time] ELSE cache[k]]

----------------------------------------------------------------------------
(* Tool invocations.  A task is one invocation of the getCryptoPrice tool or *)
(* of the getMultipleCryptoPrices tool: input is the string the host passed, *)
(* ids are the strings the handler passes to                                 *)
(* getCryptoPrice, one after the other; results holds one record per         *)
(* finished getCryptoPrice call; pc is the await the running call is         *)
(* suspended at and id its normalized id; calls are the providers the        *)
(* running call has queried; seen                                            *)
(* is the cached data of its id when it started (empty if there was none)    *)
(* and age the age of that entry, in ms (0 if there was none).               *)

\* The inputs of the tools
CryptoIdInputs ==
    { <<" ","X","R","P">>, <<"a","-","b">> }

CryptoIdsInputs ==
    { <<"a","-","b",","," ","X","r","p">>,
      <<"x","r","p",",","x","r","p">> }

\* const ids = cryptoIds.split(',').map(id => id.trim())
splitIds(cryptoIds) ==
    LET parts == split(cryptoIds, ",")
    IN  [i \in 1..Len(parts) |-> trim(parts[i])]

newTask(tool, input, ids) ==
    [tool |-> tool, input |-> input, ids |-> ids, results |-> <<>>, pc |-> "loop",
     id |-> <<>>, calls |-> <<>>, seen |-> <<>>, age |-> 0]

currentCryptoId(t) == t.ids[Len(t.results) + 1]

\* The record of a finished getCryptoPrice call
resultOf(t, value) ==
    [cryptoId |-> currentCryptoId(t),
     id |-> t.id,
     value |-> value,
     calls |-> t.calls,
     seen |-> t.seen,
     age |-> t.age]

finish(t, value) ==
    [t EXCEPT !.results = Append(@, resultOf(t, value)),
              !.id = <<>>, !.calls = <<>>, !.seen = <<>>, !.age = 0, !.pc = "loop"]

(* The synchronous run of a handler up to its next suspension: each         *)
(* getCryptoPrice call checks the cache; a hit returns the cached data and   *)
(* the loop goes on to the next id, a miss issues the CoinGecko request.     *)
RECURSIVE runLoop(_, _, _)
runLoop(t, cache, time) ==
    IF Len(t.results) = Len(t.ids)
    THEN [t EXCEPT !.pc = "done"]
    ELSE LET id == normalizeId(currentCryptoId(t))
             seen == IF id \in DOMAIN cache THEN <<cache[id].data>> ELSE <<>>
             age == IF id \in DOMAIN cache THEN time - cache[id].timestamp ELSE 0
             begun == [t EXCEPT !.id = id, !.seen = seen, !.age = age, !.calls = <<>>]
         IN  IF cacheHit(cache, id, time)
             THEN runLoop(finish(begun, cache[id].data), cache, time)
             ELSE [begun EXCEPT !.pc = "primary", !.calls = <<"coingecko-api">>]

\* server.tool("getCryptoPrice", ...): const result = await getCryptoPrice(cryptoId)
CallGetCryptoPrice ==
    /\ started < MaxStarted
    /\ Len(tasks) < inFlightMax
    /\ \E cryptoId \in CryptoIdInputs :
          tasks' = Append(tasks,
                     runLoop(newTask("getCryptoPrice", cryptoId, <<cryptoId>>), priceCache, now))
    /\ started' = started + 1
    /\ UNCHANGED <<priceCache, now, ticks, inFlightMax, walletVars, swapVars, quoteVars>>

\* server.tool("getMultipleCryptoPrices", ...): for (const cryptoId of ids) ...
CallGetMultipleCryptoPrices ==
    /\ started < MaxStarted
    /\ Len(tasks) < inFlightMax
    /\ \E cryptoIds \in CryptoIdsInputs :
          tasks' = Append(tasks,
                     runLoop(newTask("getMultipleCryptoPrices", cryptoIds, splitIds(cryptoIds)),
                             priceCache, now))
    /\ started' = started + 1
    /\ UNCHANGED <<priceCache, now, ticks, inFlightMax, walletVars, swapVars, quoteVars>>

\* results.push(`${cryptoId}: ${result.error}`) or results.push(`${result.name} ...`)
resultLine(r) ==
    IF r.value.kind = "error"
    THEN [kind |-> "error", cryptoId |-> r.cryptoId, text |-> r.value]
    ELSE [kind |-> "price", cryptoId |-> r.cryptoId, text |-> r.value]

\* return { content: [{ type: "text", text: results.join('\n') }] }
multipleReply(t) == [k \in 1..Len(t.results) |-> resultLine(t.results[k])]

\* The handler's return value reaches the host
Reply ==
    \E i \in 1..Len(tasks) :
        /\ tasks[i].pc = "done"
        /\ tasks' = SubSeq(tasks, 1, i - 1) \o SubSeq(tasks, i + 1, Len(tasks))
        /\ UNCHANGED <<priceCache, now, ticks, started, inFlightMax, walletVars, swapVars, quoteVars>>

\* Variant: the cache is written under the id as given, not the normalized one
succeedRawKey(t, cache, time, result) ==
    LET written == cachePut(cache, currentCryptoId(t), result, time)
    IN  [task |-> runLoop(finish(t, result), written, time), cache |-> written]

\* Variant: a call that finds a fresh entry when its provider answers keeps
\* that entry and returns it
succeedUnlessFresh(t, cache, time, result) ==
    IF cacheHit(cache, t.id, time)
    THEN [task |-> runLoop(finish(t, cache[t.id].data), cache, time), cache |-> cache]
    ELSE LET written == cachePut(cache, t.id, result, time)
         IN  [task |-> runLoop(finish(t, result), written, time), cache |-> written]

\* A successful provider branch: update the cache, return the result; the
\* handler then runs on to its next suspension
succeed(t, cache, time, result) ==
    LET written == cachePut(cache, t.id, result, time)
    IN  [task |-> runLoop(finish(t, result), written, time), cache |-> written]

\* Variant: a rate-limit answer of CoinGecko is retried before the fallback
onPrimaryRetrying(t, cache, time, r) ==
    IF primarySuccess(r)
    THEN succeed(t, cache, time, primaryQuote(t.id, r))
    ELSE IF r.kind = "error" /\ r.why = "status429" /\ Len(t.calls) < 2
    THEN [task |-> [t EXCEPT !.calls = Append(@, "coingecko-api")], cache |-> cache]
    ELSE [task |-> [t EXCEPT !.pc = "secondary", !.calls = Append(@, "coincap-api")],
          cache |-> cache]

\* The continuation of getCryptoPrice after the CoinGecko request has settled
onPrimary(t, cache, time, r) ==
    IF primarySuccess(r)
    THEN succeed(t, cache, time, primaryQuote(t.id, r))
    ELSE [task |-> [t EXCEPT !.pc = "secondary", !.calls = Append(@, "coincap-api")],
          cache |-> cache]

\* The continuation of getCryptoPrice after the CoinCap request has settled
onSecondary(t, cache, time, r) ==
    IF secondarySuccess(r)
    THEN succeed(t, cache, time, secondaryQuote(t.id, r))
    ELSE [task |-> [t EXCEPT !.pc = "tertiary", !.calls = Append(@, "cryptocompare-api")],
          cache |-> cache]

\* Variant: a failed resolution ends the handler instead of going on to the next id
onTertiaryAborting(t, cache, time, r) ==
    IF tertiarySuccess(r)
    THEN succeed(t, cache, time, tertiaryQuote(t.id, r))
    ELSE [task |-> [finish(t, errorResult(currentCryptoId(t))) EXCEPT !.pc = "done"],
          cache |-> cache]

\* The continuation of getCryptoPrice after the CryptoCompare request has settled
onTertiary(t, cache, time, r) ==
    IF tertiarySuccess(r)
    THEN succeed(t, cache, time, tertiaryQuote(t.id, r))
    ELSE [task |-> runLoop(finish(t, errorResult(currentCryptoId(t))), cache, time),
          cache |-> cache]

PrimaryResponds ==
    \E i \in 1..Len(tasks) : \E r \in PrimaryResponses :
        /\ tasks[i].pc = "primary"
        /\ LET out == onPrimary(tasks[i], priceCache, now, r)
           IN  /\ tasks' = [tasks EXCEPT ![i] = out.task]
               /\ priceCache' = out.cache
        /\ UNCHANGED <<now, ticks, started, inFlightMax, walletVars, swapVars, quoteVars>>

SecondaryResponds ==
    \E i \in 1..Len(tasks) : \E r \in SecondaryResponses :
        /\ tasks[i].pc = "secondary"
        /\ LET out == onSecondary(tasks[i], priceCache, now, r)
           IN  /\ tasks' = [tasks EXCEPT ![i] = out.task]
               /\ priceCache' = out.cache
        /\ UNCHANGED <<now, ticks, started, inFlightMax, walletVars, swapVars, quoteVars>>

TertiaryResponds ==
    \E i \in 1..Len(tasks) : \E r \in TertiaryResponses :
        /\ tasks[i].pc = "tertiary"
        /\ LET out == onTertiary(tasks[i], priceCache, now, r)
           IN  /\ tasks' = [tasks EXCEPT ![i] = out.task]
               /\ priceCache' = out.cache
        /\ UNCHANGED <<now, ticks, started, inFlightMax, walletVars, swapVars, quoteVars>>

\* Time passes
TickSteps == {59999, 60000}

Tick ==
    /\ ticks < MaxTicks
    /\ \E d \in TickSteps : now' = now + d
    /\ ticks' = ticks + 1
    /\ UNCHANGED <<priceCache, tasks, started, inFlightMax, walletVars, swapVars, quoteVars>>

Init ==
    /\ priceCache = <<>>
    /\ now = 0
    /\ ticks = 0
    /\ tasks = <<>>
    /\ started = 0
    /\ inFlightMax = 1
    /\ ops = <<>>
    /\ opsStarted = 0
    /\ transaction = NoTransaction
    /\ wallet = ""
    /\ analyzed = NotAnalyzed
    /\ asked = NotAsked
    /\ quoted = NotQuoted

Next ==
    \/ CallGetCryptoPrice
    \/ CallGetMultipleCryptoPrices
    \/ PrimaryResponds
    \/ SecondaryResponds
    \/ TertiaryResponds
    \/ Reply
    \/ Tick

Spec == Init /\ [][Next]_vars

----------------------------------------------------------------------------
(* Properties of the price resolver *)

Awaiting == {"primary", "secondary", "tertiary"}

\* The record the running getCryptoPrice call of task t leaves in out
resolved(t, out) == out.results[Len(t.results) + 1]

isPrefix(a, b) == Len(a) <= Len(b) /\ SubSeq(b, 1, Len(a)) = a

\* C1: a getCryptoPrice call that finds an entry of its id younger than
\* 60,000 ms returns exactly the cached quote and makes no provider call.
C1_FreshEntryIsServedFromCache ==
    \A i \in 1..Len(tasks) :
        /\ \A k \in 1..Len(tasks[i].results) :
              LET r == tasks[i].results[k]
              IN  (r.seen # <<>> /\ r.age < 60000) =>
                      (r.value = r.seen[1] /\ r.calls = <<>>)
        /\ tasks[i].pc \in Awaiting =>
              ~ (tasks[i].seen # <<>> /\ tasks[i].age < 60000)

\* A second resolution of an id, 59,999 ms after the first one's cache write
C1_Witness ==
    \E i \in 1..Len(tasks) : \E k \in 1..Len(tasks[i].results) :
        LET r == tasks[i].results[k]
        IN  r.seen # <<>> /\ r.age = 59999 /\ r.calls = <<>> /\ r.value = r.seen[1]

\* C2: a getCryptoPrice call that finds no entry of its id, or one whose age
\* is 60,000 ms or more, is not answered from the cache: it queries CoinGecko.
C2_StaleOrMissingEntryCallsProvider ==
    \A i \in 1..Len(tasks) :
        /\ \A k \in 1..Len(tasks[i].results) :
              LET r == tasks[i].results[k]
              IN  (r.seen = <<>> \/ r.age >= 60000) =>
                      (r.calls # <<>> /\ r.calls[1] = "coingecko-api")
        /\ tasks[i].pc \in Awaiting =>
              /\ tasks[i].seen = <<>> \/ tasks[i].age >= 60000
              /\ tasks[i].calls # <<>> /\ tasks[i].calls[1] = "coingecko-api"

\* A resolution of an id whose entry is exactly 60,000 ms old
C2_Witness ==
    \E i \in 1..Len(tasks) : \E k \in 1..Len(tasks[i].results) :
        LET r == tasks[i].results[k]
        IN  r.seen # <<>> /\ r.age = 60000 /\ r.calls # <<>>

\* C3: when a call has missed the cache, the primary has failed and the
\* secondary answers successfully, the call returns the secondary's quote with
\* source "coincap-api", and the tertiary is not queried in that resolution.
C3_SecondarySuccessEndsTheChain ==
    \A i \in 1..Len(tasks) :
        /\ tasks[i].pc = "secondary" =>
              /\ tasks[i].calls = <<"coingecko-api", "coincap-api">>
              /\ \A r \in SecondaryResponses :
                    secondarySuccess(r) =>
                        LET out == onSecondary(tasks[i], priceCache, now, r).task
                            res == resolved(tasks[i], out)
                        IN  /\ res.cryptoId = currentCryptoId(tasks[i])
                            /\ res.value = [kind |-> "quote", name |-> r.name,
                                            symbol |-> r.symbol,
                                            price |-> toFixed2(r.priceUsd.v),
                                            currency |-> "USD", source |-> "coincap-api"]
                            /\ res.calls = <<"coingecko-api", "coincap-api">>
        /\ \A k \in 1..Len(tasks[i].results) :
              LET r == tasks[i].results[k]
              IN  r.calls = <<"coingecko-api", "coincap-api">> =>
                      (r.value.kind = "quote" /\ r.value.source = "coincap-api")

\* A resolution answered by the secondary after the primary failed
C3_Witness ==
    \E i \in 1..Len(tasks) : \E k \in 1..Len(tasks[i].results) :
        LET r == tasks[i].results[k]
        IN  /\ r.value.kind = "quote" /\ r.value.source = "coincap-api"
            /\ r.calls = <<"coingecko-api", "coincap-api">>

FirstFivePopular == <<"bitcoin", "ethereum", "solana", "cardano", "dogecoin">>

\* C4: when all three providers fail for an id (the tertiary by an error or by
\* an HTTP 200 without a USD price), getCryptoPrice returns an error value that
\* carries the input string as given and the first 5 ids of the popular list.
C4_AllProvidersFailGivesError ==
    \A i \in 1..Len(tasks) :
        /\ tasks[i].pc = "tertiary" =>
              /\ tasks[i].calls = <<"coingecko-api", "coincap-api", "cryptocompare-api">>
              /\ \A r \in TertiaryResponses :
                    ~ tertiarySuccess(r) =>
                        LET out == onTertiary(tasks[i], priceCache, now, r).task
                            res == resolved(tasks[i], out)
                        IN  /\ res.value.kind = "error"
                            /\ res.value.input = currentCryptoId(tasks[i])
                            /\ res.value.suggestions = FirstFivePopular
        /\ \A k \in 1..Len(tasks[i].results) :
              LET r == tasks[i].results[k]
              IN  r.value.kind = "error" =>
                      /\ r.value.input = tasks[i].ids[k]
                      /\ r.value.suggestions = FirstFivePopular
                      /\ r.calls = <<"coingecko-api", "coincap-api", "cryptocompare-api">>

\* An error returned for an input that differs from its normalized form
C4_Witness ==
    \E i \in 1..Len(tasks) : \E k \in 1..Len(tasks[i].results) :
        LET r == tasks[i].results[k]
        IN  /\ r.value.kind = "error"
            /\ r.cryptoId # normalizeId(r.cryptoId)
            /\ r.value.input = r.cryptoId

\* The number of commas of a string
commas(str) == Cardinality({j \in 1..Len(str) : str[j] = ","})

\* C5: getMultipleCryptoPrices on a list of n ids answers n lines in input
\* order, one per occurrence; an id that fails gives an error line naming that
\* id at its own position, the handler goes on to the ids after it, and no
\* provider answer changes a line already produced.
C5_BatchKeepsOrderAndIsolatesFailures ==
    \A i \in 1..Len(tasks) :
        LET t == tasks[i]
            n == commas(t.input) + 1
            lines == multipleReply(t)
            pieces == split(t.input, ",")
        IN  t.tool = "getMultipleCryptoPrices" =>
              /\ Len(lines) <= n
              /\ t.pc = "done" <=> Len(lines) = n
              /\ \A k \in 1..Len(lines) :
                    /\ lines[k].cryptoId = trim(pieces[k])
                    /\ t.results[k].id = normalizeId(pieces[k])
                    /\ lines[k].kind = "error" <=> t.results[k].value.kind = "error"
                    /\ lines[k].kind = "error" => lines[k].text.input = trim(pieces[k])
              /\ t.pc = "tertiary" =>
                    \A r \in TertiaryResponses :
                        LET out == onTertiary(t, priceCache, now, r)
                        IN  /\ isPrefix(t.results, out.task.results)
                            /\ Len(out.task.results) > Len(t.results)
                            /\ out.task.pc = "done" <=> Len(out.task.results) = n
                            /\ ~ tertiarySuccess(r) => out.cache = priceCache

\* A finished batch over a duplicated id whose first position failed and whose
\* second position succeeded
C5_Witness ==
    \E i \in 1..Len(tasks) :
        /\ tasks[i].tool = "getMultipleCryptoPrices"
        /\ tasks[i].pc = "done"
        /\ Len(tasks[i].results) = 2
        /\ tasks[i].ids[1] = tasks[i].ids[2]
        /\ tasks[i].results[1].value.kind = "error"
        /\ tasks[i].results[2].value.kind = "quote"

----------------------------------------------------------------------------
(* Further properties of the price resolver *)

ProviderOrder == <<"coingecko-api", "coincap-api", "cryptocompare-api">>

\* The place in ProviderOrder of the request a call is suspended at
pending(pc) == IF pc = "primary" THEN 1 ELSE IF pc = "secondary" THEN 2 ELSE 3

\* What the continuation of the suspended call of task t does with answer r
continue(t, r) ==
    IF t.pc = "primary" THEN onPrimary(t, priceCache, now, r)
    ELSE IF t.pc = "secondary" THEN onSecondary(t, priceCache, now, r)
    ELSE onTertiary(t, priceCache, now, r)

answers(pc) ==
    IF pc = "primary" THEN PrimaryResponses
    ELSE IF pc = "secondary" THEN SecondaryResponses
    ELSE TertiaryResponses

accepted(pc, r) ==
    IF pc = "primary" THEN primarySuccess(r)
    ELSE IF pc = "secondary" THEN secondarySuccess(r)
    ELSE tertiarySuccess(r)

\* C12: in every resolution the provider calls are a prefix of [primary,
\* secondary, tertiary]: none on a cache hit, each provider at most once (a
\* rate-limit answer is not retried), provider k+1 only after provider k has
\* failed, and none after a provider has succeeded.
C12_ProviderCallsFollowTheOrder ==
    \A i \in 1..Len(tasks) :
        LET t == tasks[i]
        IN  /\ \A k \in 1..Len(t.results) :
                  LET res == t.results[k]
                  IN  /\ isPrefix(res.calls, ProviderOrder)
                      /\ res.calls = <<>> <=> (res.seen # <<>> /\ res.age < CACHE_TTL)
                      /\ (res.value.kind = "quote" /\ res.calls # <<>>) =>
                            res.value.source = res.calls[Len(res.calls)]
                      /\ res.value.kind = "error" => res.calls = ProviderOrder
            /\ t.pc \in Awaiting =>
                  /\ t.calls = SubSeq(ProviderOrder, 1, pending(t.pc))
                  /\ \A r \in answers(t.pc) :
                        LET out == continue(t, r).task
                        IN  IF accepted(t.pc, r)
                            THEN /\ resolved(t, out).calls = t.calls
                                 /\ resolved(t, out).value.source
                                      = ProviderOrder[pending(t.pc)]
                            ELSE IF t.pc = "tertiary"
                            THEN /\ resolved(t, out).calls = ProviderOrder
                                 /\ resolved(t, out).value.kind = "error"
                            ELSE /\ out.results = t.results
                                 /\ out.pc \in Awaiting
                                 /\ pending(out.pc) = pending(t.pc) + 1
                                 /\ out.calls = SubSeq(ProviderOrder, 1, pending(t.pc) + 1)

\* A batch whose first resolution went through all three providers and whose
\* second one was answered with no call
C12_Witness ==
    \E i \in 1..Len(tasks) :
        /\ Len(tasks[i].results) = 2
        /\ tasks[i].results[1].calls = ProviderOrder
        /\ tasks[i].results[1].value.kind = "quote"
        /\ tasks[i].results[2].calls = <<>>

\* Every key is a lower-cased, trimmed id, and every entry a quote with the
\* time of its write
cacheWellFormed ==
    \A k \in DOMAIN priceCache :
        /\ toLowerCase(k) = k
        /\ trim(k) = k
        /\ priceCache[k].data.kind = "quote"
        /\ priceCache[k].timestamp <= now

\* For every answer a suspended call can get: a rejected answer leaves the
\* cache as it is, an accepted one puts the returned quote with the present
\* time under the id of the call and leaves every other entry as it is
cacheWrittenBySuccessOnly ==
    \A i \in 1..Len(tasks) :
        tasks[i].pc \in Awaiting =>
            \A r \in answers(tasks[i].pc) :
                LET out == continue(tasks[i], r)
                IN  IF accepted(tasks[i].pc, r)
                    THEN /\ DOMAIN out.cache = DOMAIN priceCache \cup {tasks[i].id}
                         /\ out.cache[tasks[i].id]
                              = [data |-> resolved(tasks[i], out.task).value,
                                 timestamp |-> now]
                         /\ \A k \in DOMAIN priceCache \ {tasks[i].id} :
                               out.cache[k] = priceCache[k]
                    ELSE out.cache = priceCache

\* A step changes the cache only by finishing a provider-backed resolution
\* with a quote; no entry is ever removed
cacheStep ==
    \/ priceCache' = priceCache
    \/ \E i \in 1..Len(tasks) :
          /\ tasks[i].pc \in Awaiting
          /\ Len(tasks') = Len(tasks)
          /\ Len(tasks'[i].results) > Len(tasks[i].results)
          /\ LET res == tasks'[i].results[Len(tasks[i].results) + 1]
             IN  /\ res.value.kind = "quote"
                 /\ res.calls # <<>>
                 /\ DOMAIN priceCache' = DOMAIN priceCache \cup {res.id}
                 /\ priceCache'[res.id] = [data |-> res.value, timestamp |-> now]
                 /\ \A k \in DOMAIN priceCache \ {res.id} : priceCache'[k] = priceCache[k]

\* C13: the cache is written only by a successful provider-backed resolution:
\* every key is a lower-cased, trimmed id whose entry is the quote that the
\* latest such resolution of the key returned; a cache hit and a resolution
\* in which all providers fail leave the whole cache unchanged, and no entry
\* is ever deleted.
C13_CacheIsWrittenBySuccessOnly ==
    /\ [](cacheWellFormed /\ cacheWrittenBySuccessOnly)
    /\ [][cacheStep]_vars

\* An entry written at time 0 that has stayed, next to an entry of another
\* key that was overwritten when it was 60000 ms old
C13_Witness ==
    \E k1, k2 \in DOMAIN priceCache :
        /\ k1 # k2
        /\ priceCache[k1].timestamp = 0
        /\ priceCache[k2].timestamp = 60000
        /\ now = 60000

\* C14: whenever CoinGecko answers HTTP 200 with a numeric price for the
\* requested id, whatever the number (0 included), the resolution succeeds
\* with source "coingecko-api", caches the quote and queries no other provider.
C14_NumericPrimaryPriceSucceeds ==
    \A i \in 1..Len(tasks) :
        tasks[i].pc = "primary" =>
            \A r \in PrimaryResponses :
                (r.kind = "response" /\ r.status = 200 /\ r.usd.ty = "number") =>
                    LET out == onPrimary(tasks[i], priceCache, now, r)
                    IN  /\ Len(out.task.results) > Len(tasks[i].results)
                        /\ resolved(tasks[i], out.task).value.kind = "quote"
                        /\ resolved(tasks[i], out.task).value.source = "coingecko-api"
                        /\ resolved(tasks[i], out.task).value.price = toFixed2(r.usd.v)
                        /\ resolved(tasks[i], out.task).calls = <<"coingecko-api">>
                        /\ tasks[i].id \in DOMAIN out.cache
                        /\ out.cache[tasks[i].id].data = resolved(tasks[i], out.task).value

----------------------------------------------------------------------------
(* One getCryptoPrice call on an empty cache, suspended at one of the three  *)
(* providers, with an answer drawn from a wider set of price fields.         *)

QuotePriceValues == {0 - 1500, 0 - 4, 0, 4, 5, 12345, 999995}

QuotePriceFields ==
    {AbsentField} \cup [ty : {"number", "string"}, v : QuotePriceValues]

QuoteAnswers(pc) ==
    IF pc = "primary"
    THEN [kind : {"error"}, why : AxiosErrors, status : {0}, usd : {AbsentField}]
         \cup [kind : {"response"}, why : {"none"}, status : Statuses, usd : QuotePriceFields]
    ELSE IF pc = "secondary"
    THEN [kind : {"error"}, why : AxiosErrors, status : {0}, priceUsd : {AbsentField},
          name : CoinCapNames, symbol : CoinCapSymbols]
         \cup [kind : {"response"}, why : {"none"}, status : Statuses,
               priceUsd : QuotePriceFields, name : CoinCapNames, symbol : CoinCapSymbols]
    ELSE [kind : {"error"}, why : AxiosErrors, status : {0}, USD : {AbsentField}]
         \cup [kind : {"response"}, why : {"none"}, status : Statuses, USD : QuotePriceFields]

\* getCryptoPrice(cryptoId) on an empty cache, run up to the request to the
\* provider of pc, the providers before it having timed out
suspendedAt(cryptoId, pc) ==
    LET atPrimary == runLoop(newTask("getCryptoPrice", cryptoId, <<cryptoId>>), <<>>, 0)
        atSecondary ==
            onPrimary(atPrimary, <<>>, 0,
                      [kind |-> "error", why |-> "timeout", status |-> 0,
                       usd |-> AbsentField]).task
        atTertiary ==
            onSecondary(atSecondary, <<>>, 0,
                        [kind |-> "error", why |-> "timeout", status |-> 0,
                         priceUsd |-> AbsentField,
                         name |-> <<"R","i","p","p","l","e">>,
                         symbol |-> <<"X","R","P">>]).task
    IN  IF pc = "primary" THEN atPrimary
        ELSE IF pc = "secondary" THEN atSecondary
        ELSE atTertiary

InitQuote ==
    /\ asked \in { [pc |-> pc, cryptoId |-> cryptoId, answer |-> answer] :
                     pc \in Awaiting, cryptoId \in CryptoIdInputs,
                     answer \in UNION {QuoteAnswers(q) : q \in Awaiting} }
    /\ asked.answer \in QuoteAnswers(asked.pc)
    /\ quoted = NotQuoted
    /\ priceCache = <<>>
    /\ now = 0
    /\ ticks = 0
    /\ tasks = <<>>
    /\ started = 0
    /\ inFlightMax = 1
    /\ ops = <<>>
    /\ opsStarted = 0
    /\ transaction = NoTransaction
    /\ wallet = ""
    /\ analyzed = NotAnalyzed

\* The provider answers: the call runs to its end or to its next request
ProviderAnswers ==
    /\ quoted = NotQuoted
    /\ quoted' = continue(suspendedAt(asked.cryptoId, asked.pc), asked.answer)
    /\ UNCHANGED <<asked, now, ticks, priceVars, walletVars, swapVars>>

NextQuote == ProviderAnswers

SpecQuote == InitQuote /\ [][NextQuote]_vars

\* C15: every quote that getCryptoPrice returns or stores in the cache has
\* price >= 0, currency "USD" and as source the name of the provider whose
\* answer produced it, for every answer that the success tests accept.
C15_QuotesAreWellFormed ==
    (quoted # NotQuoted /\ accepted(asked.pc, asked.answer)) =>
        LET value == quoted.task.results[1].value
            id == normalizeId(asked.cryptoId)
        IN  /\ value.kind = "quote"
            /\ value.price >= 0
            /\ value.currency = "USD"
            /\ value.source = ProviderOrder[pending(asked.pc)]
            /\ id \in DOMAIN quoted.cache
            /\ quoted.cache[id].data = value

----------------------------------------------------------------------------
(* Numbers of the wallet analyzer.  A JavaScript value that holds an amount  *)
(* is absent (undefined), a number or a string of digits; a number or a      *)
(* string with fields m, e stands for m / 10^e (the string "2.50" is         *)
(* m = 250, e = 2).  Numbers are kept normalized: no trailing zero in m      *)
(* while e > 0.                                                              *)

Undefined == [ty |-> "absent", m |-> 0, e |-> 0]

RECURSIVE pow10(_)
pow10(k) == IF k = 0 THEN 1 ELSE 10 * pow10(k - 1)

RECURSIVE number(_, _)
number(m, e) ==
    IF m = 0 THEN [ty |-> "number", m |-> 0, e |-> 0]
    ELSE IF e > 0 /\ m % 10 = 0 THEN number(m \div 10, e - 1)
    ELSE [ty |-> "number", m |-> m, e |-> e]

string(m, e) == [ty |-> "string", m |-> m, e |-> e]

\* JavaScript truthiness of an amount value (the strings here are never empty)
truthyValue(v) ==
    \/ v.ty = "string"
    \/ v.ty = "number" /\ v.m # 0

\* parseFloat(x) for a number or a string of digits
parseFloat(v) == number(v.m, v.e)

\* x.toString().replace('.', ''): the digits of x without the decimal point
digitsWithoutPoint(v) == string(v.m, 0)

\* x / Math.pow(10, k), x / 1e9, x / 1000000
divPow10(v, k) == number(v.m, v.e + k)

\* a > b for two numbers
greater(a, b) ==
    IF a.e >= b.e
    THEN LET K == pow10(a.e - b.e)
         IN  \/ a.m \div K > b.m
             \/ a.m \div K = b.m /\ a.m % K > 0
    ELSE LET K == pow10(b.e - a.e)
         IN  b.m \div K < a.m

\* a + b for two numbers
plus(a, b) ==
    IF a.e >= b.e
    THEN number(a.m + b.m * pow10(a.e - b.e), a.e)
    ELSE number(a.m * pow10(b.e - a.e) + b.m, b.e)

Zero == number(0, 0)

RECURSIVE gcd(_, _)
gcd(a, b) == IF b = 0 THEN a ELSE gcd(b, a % b)

abs(a) == IF a < 0 THEN 0 - a ELSE a

\* The quotient n / d (d > 0) as a reduced fraction
fraction(n, d) ==
    LET g == gcd(abs(n), d)
    IN  [n |-> n \div g, d |-> d \div g]

percentUnscaled(a, b) == fraction(a, b)

\* (a / b) * 100 for two counts
percent(a, b) == fraction(100 * a, b)

\* x / n for a number x and a count n
quotient(x, n) == fraction(x.m, pow10(x.e) * n)

----------------------------------------------------------------------------
(* Transactions of the Helius feed, as far as the analyzer reads them *)

WSOL == "So11111111111111111111111111111111111111112"

PUMP == "GiwsvnWCAGs37hQAcuCC3GB4PxuUtMe7r4jc2E9Gpump"

USDC == "EPjFWdd5AufqSSqeM2qN1xzybapC8G4wEGGkZwyTDt1v"

NoRawTokenAmount == [present |-> FALSE, tokenAmount |-> Undefined, decimals |-> Undefined]

rawTokenAmount(tokenAmount, decimals) ==
    [present |-> TRUE, tokenAmount |-> tokenAmount, decimals |-> decimals]

\* The first element of seq that satisfies the test, as a sequence of 0 or 1
firstFrom(seq, account) ==
    LET hits == {i \in 1..Len(seq) : seq[i].fromUserAccount = account}
    IN  IF hits = {} THEN <<>> ELSE <<seq[CHOOSE i \in hits : \A j \in hits : i <= j]>>

firstTo(seq, account) ==
    LET hits == {i \in 1..Len(seq) : seq[i].toUserAccount = account}
    IN  IF hits = {} THEN <<>> ELSE <<seq[CHOOSE i \in hits : \A j \in hits : i <= j]>>

\* x || 6 for the decimals field
decimalsOr6(v) == IF truthyValue(v) THEN v.m ELSE 6

\* The amount of the sold transfer
amountInOf(soldTransfer) ==
    IF soldTransfer.rawTokenAmount.present
    THEN LET decimals == decimalsOr6(soldTransfer.rawTokenAmount.decimals)
             rawAmount == IF truthyValue(soldTransfer.rawTokenAmount.tokenAmount)
                          THEN soldTransfer.rawTokenAmount.tokenAmount
                          ELSE string(0, 0)
         IN  divPow10(parseFloat(rawAmount), decimals)
    ELSE IF soldTransfer.tokenAmount.ty = "number" THEN soldTransfer.tokenAmount
    ELSE IF soldTransfer.tokenAmount.ty = "string" THEN parseFloat(soldTransfer.tokenAmount)
    ELSE Zero

\* boughtTransfer.tokenAmount.toString() throws when tokenAmount is undefined
amountOutThrows(boughtTransfer) ==
    /\ ~ (boughtTransfer.rawTokenAmount.present
          /\ truthyValue(boughtTransfer.rawTokenAmount.tokenAmount))
    /\ boughtTransfer.tokenAmount.ty = "absent"

\* The amount of the bought transfer, with the sanity check
amountOutOf(boughtTransfer) ==
    LET decimals == IF boughtTransfer.rawTokenAmount.present
                    THEN decimalsOr6(boughtTransfer.rawTokenAmount.decimals)
                    ELSE 6
        rawAmount == IF boughtTransfer.rawTokenAmount.present
                        /\ truthyValue(boughtTransfer.rawTokenAmount.tokenAmount)
                     THEN boughtTransfer.rawTokenAmount.tokenAmount
                     ELSE digitsWithoutPoint(boughtTransfer.tokenAmount)
        amountOut == divPow10(parseFloat(rawAmount), decimals)
    IN  IF greater(amountOut, number(1000000, 0)) /\ boughtTransfer.mint # PUMP
        THEN divPow10(amountOut, 6)
        ELSE amountOut

\* The profit/loss of a trade read from tx.accountData
profitLossOf(tx, walletAddress, tokenIn, tokenOut) ==
    LET mine == {i \in 1..Len(tx.accountData.entries) :
                    tx.accountData.entries[i].account = walletAddress}
    IN  IF ~ tx.accountData.present \/ mine = {}
        THEN Undefined
        ELSE LET walletAccountData ==
                     tx.accountData.entries[CHOOSE i \in mine : \A j \in mine : i <= j]
             IN  IF walletAccountData.nativeBalanceChange > 0
                 THEN divPow10(number(walletAccountData.nativeBalanceChange, 0), 9)
                 ELSE IF tokenOut = WSOL /\ tokenIn # WSOL
                 THEN number(1, 3)
                 ELSE number(0 - 1, 3)

\* Variant: only the first transfer of the direction is counted
sumAmountsOfFirst(transfers) ==
    IF transfers = <<>> THEN 0 ELSE Head(transfers).amount

RECURSIVE sumAmounts(_)
sumAmounts(transfers) ==
    IF transfers = <<>> THEN 0 ELSE Head(transfers).amount + sumAmounts(Tail(transfers))

RECURSIVE filterFrom(_, _)
filterFrom(transfers, account) ==
    IF transfers = <<>> THEN <<>>
    ELSE (IF Head(transfers).fromUserAccount = account THEN <<Head(transfers)>> ELSE <<>>)
         \o filterFrom(Tail(transfers), account)

RECURSIVE filterTo(_, _)
filterTo(transfers, account) ==
    IF transfers = <<>> THEN <<>>
    ELSE (IF Head(transfers).toUserAccount = account THEN <<Head(transfers)>> ELSE <<>>)
         \o filterTo(Tail(transfers), account)

NoTrade == [kind |-> "null"]

\* const tradeInfo = { timestamp, type: 'SWAP', signature, source: tx.source || 'Unknown' }
basicTradeInfo(tx) ==
    [kind |-> "trade",
     timestamp |-> tx.timestamp,
     type |-> "SWAP",
     signature |-> tx.signature,
     source |-> IF tx.source = "" THEN "Unknown" ELSE tx.source,
     tokenIn |-> "undefined",
     tokenOut |-> "undefined",
     amountIn |-> Undefined,
     amountOut |-> Undefined,
     profitLoss |-> Undefined]

\* WalletAnalyzer.extractSwapInfo
extractSwapInfo(tx, walletAddress) ==
    IF Len(tx.tokenTransfers) > 0
    THEN LET tokensSent == firstFrom(tx.tokenTransfers, walletAddress)
             tokensReceived == firstTo(tx.tokenTransfers, walletAddress)
             tokenIn == IF tokensSent = <<>> THEN "undefined" ELSE tokensSent[1].mint
             tokenOut == IF tokensReceived = <<>> THEN "undefined" ELSE tokensReceived[1].mint
         IN  IF tokensReceived # <<>> /\ amountOutThrows(tokensReceived[1])
             THEN NoTrade
             ELSE [basicTradeInfo(tx) EXCEPT
                     !.tokenIn = tokenIn,
                     !.tokenOut = tokenOut,
                     !.amountIn = IF tokensSent = <<>> THEN Undefined
                                  ELSE amountInOf(tokensSent[1]),
                     !.amountOut = IF tokensReceived = <<>> THEN Undefined
                                   ELSE amountOutOf(tokensReceived[1]),
                     !.profitLoss = profitLossOf(tx, walletAddress, tokenIn, tokenOut)]
    ELSE LET solReceived == filterTo(tx.nativeTransfers, walletAddress)
             solSent == filterFrom(tx.nativeTransfers, walletAddress)
         IN  IF Len(solSent) > 0 /\ Len(solReceived) > 0
             THEN [basicTradeInfo(tx) EXCEPT
                     !.tokenIn = "SOL",
                     !.tokenOut = "SOL",
                     !.amountIn = divPow10(number(sumAmounts(solSent), 0), 9),
                     !.amountOut = divPow10(number(sumAmounts(solReceived), 0), 9)]
             ELSE NoTrade

\* const stats = { totalTrades: 0, ... tradeHistory: [] }
initialStats ==
    [kind |-> "stats",
     totalTrades |-> 0,
     profitableTrades |-> 0,
     totalProfitLoss |-> Zero,
     averageTradeSize |-> fraction(0, 1),
     largestTrade |-> Zero,
     largestSOLTrade |-> Zero,
     successRate |-> fraction(0, 1),
     tradeHistory |-> <<>>]

\* Variant: records of the native fallback count as SOL trades too
addTradeCountingFallback(stats, tradeInfo) ==
    LET profitable == truthyValue(tradeInfo.profitLoss) /\ greater(tradeInfo.profitLoss, Zero)
        isSOLTrade == tradeInfo.tokenIn \in {WSOL, "SOL"} /\ truthyValue(tradeInfo.amountIn)
    IN  [stats EXCEPT
           !.tradeHistory = Append(@, tradeInfo),
           !.totalTrades = @ + 1,
           !.profitableTrades = IF profitable THEN @ + 1 ELSE @,
           !.totalProfitLoss = IF profitable THEN plus(@, tradeInfo.profitLoss) ELSE @,
           !.largestSOLTrade = IF isSOLTrade /\ greater(tradeInfo.amountIn, @)
                               THEN tradeInfo.amountIn ELSE @,
           !.largestTrade = IF truthyValue(tradeInfo.amountIn) /\ greater(tradeInfo.amountIn, @)
                            THEN tradeInfo.amountIn ELSE @]

\* The body of the loop of analyzeWallet for one SWAP transaction
addTrade(stats, tradeInfo) ==
    LET profitable == truthyValue(tradeInfo.profitLoss) /\ greater(tradeInfo.profitLoss, Zero)
        isSOLTrade == tradeInfo.tokenIn = WSOL /\ truthyValue(tradeInfo.amountIn)
    IN  [stats EXCEPT
           !.tradeHistory = Append(@, tradeInfo),
           !.totalTrades = @ + 1,
           !.profitableTrades = IF profitable THEN @ + 1 ELSE @,
           !.totalProfitLoss = IF profitable THEN plus(@, tradeInfo.profitLoss) ELSE @,
           !.largestSOLTrade = IF isSOLTrade /\ greater(tradeInfo.amountIn, @)
                               THEN tradeInfo.amountIn ELSE @,
           !.largestTrade = IF truthyValue(tradeInfo.amountIn) /\ greater(tradeInfo.amountIn, @)
                            THEN tradeInfo.amountIn ELSE @]

(* Texts.  A text is a sequence of parts: a literal of the source, a string   *)
(* value interpolated into a template, an integer, a number printed by       *)
(* toFixed or a date printed by toLocaleString.                              *)

lit(s) == [lit |-> s]

str(s) == [str |-> s]

num(n) == [num |-> n]

\* (n / d).toFixed(k) for n >= 0, d > 0: the digits before and after the point
fixedOf(n, d, k) ==
    LET whole == n \div d
        scaled == (2 * (n % d) * pow10(k) + d) \div (2 * d)
    IN  IF scaled = pow10(k)
        THEN [whole |-> whole + 1, frac |-> 0, digits |-> k]
        ELSE [whole |-> whole, frac |-> scaled, digits |-> k]

\* x.toFixed(k) for a number x
toFixed(v, k) == fixedOf(v.m, pow10(v.e), k)

\* The text contains the string w as an interpolated value
mentions(text, w) == \E i \in 1..Len(text) : text[i] = str(w)

\* Reading tx.type of a null entry, or tx.signature?.substring of a signature
\* that is not a string, throws a TypeError inside the loop of analyzeWallet
loopThrows(tx) ==
    \/ tx.isNull
    \/ tx.type = "SWAP" /\ tx.signatureKind = "number"

thrown(message) == [kind |-> "thrown", message |-> message]

\* throw new Error('Failed to analyze wallet transactions: ' + error.message)
analysisError(message) ==
    thrown(<<lit("Failed to analyze wallet transactions: "), lit(message)>>)

RECURSIVE processTransactions(_, _, _)
processTransactions(stats, transactions, walletAddress) ==
    IF transactions = <<>> THEN stats
    ELSE LET tx == Head(transactions)
         IN  IF loopThrows(tx)
             THEN analysisError(IF tx.isNull
                                THEN "Cannot read properties of null (reading 'type')"
                                ELSE "tx.signature?.substring is not a function")
             ELSE IF tx.type # "SWAP"
             THEN processTransactions(stats, Tail(transactions), walletAddress)
             ELSE LET tradeInfo == extractSwapInfo(tx, walletAddress)
                  IN  IF tradeInfo # NoTrade
                      THEN processTransactions(addTrade(stats, tradeInfo),
                                               Tail(transactions), walletAddress)
                      ELSE processTransactions(stats, Tail(transactions), walletAddress)

\* if (stats.totalTrades > 0) { successRate = ...; averageTradeSize = ... }
finalStats(stats) ==
    IF stats.kind = "stats" /\ stats.totalTrades > 0
    THEN [stats EXCEPT
            !.successRate = percent(stats.profitableTrades, stats.totalTrades),
            !.averageTradeSize = quotient(stats.totalProfitLoss, stats.totalTrades)]
    ELSE stats

(* What axios.get of the transaction history can do: reject with a message,  *)
(* or resolve with a body that is an array of transactions, null, a string   *)
(* or an object that is no array.                                            *)
HeliusErrors ==
    {"timeout of 30000ms exceeded", "Request failed with status code 404", "Network Error"}

heliusError(message) == [kind |-> "error", message |-> message, data |-> "none", feed |-> <<>>]

heliusBody(data, feed) == [kind |-> "response", message |-> "", data |-> data, feed |-> feed]

\* WalletAnalyzer.analyzeWallet, from the point where the request has settled
analyzeWallet(response, walletAddress) ==
    IF response.kind = "error" THEN analysisError(response.message)
    ELSE IF response.data = "array"
    THEN finalStats(processTransactions(initialStats, response.feed, walletAddress))
    ELSE IF response.data = "object"
    THEN analysisError("transactions is not iterable")
    ELSE finalStats(initialStats)

----------------------------------------------------------------------------
(* Transactions used as inputs *)

Wallets == {"WalletA", "WalletB"}

tokenTransfer(from, to, mint, raw, tokenAmount) ==
    [fromUserAccount |-> from, toUserAccount |-> to, mint |-> mint,
     rawTokenAmount |-> raw, tokenAmount |-> tokenAmount]

nativeTransfer(from, to, amount) ==
    [fromUserAccount |-> from, toUserAccount |-> to, amount |-> amount]

NoAccountData == [present |-> FALSE, entries |-> <<>>]

accountData(entries) == [present |-> TRUE, entries |-> entries]

balanceChange(account, change) == [account |-> account, nativeBalanceChange |-> change]

tx(type, tokenTransfers, nativeTransfers, data) ==
    [isNull |-> FALSE, type |-> type, timestamp |-> 1700000000,
     signature |-> "5VERv8NMvzbJMEkV8xnrLkEaWRtSz9CosKDYjCJjBRnb",
     signatureKind |-> "string", source |-> "JUPITER",
     tokenTransfers |-> tokenTransfers, nativeTransfers |-> nativeTransfers,
     accountData |-> data]

RawShapes ==
    { NoRawTokenAmount,
      rawTokenAmount(string(2500000, 0), number(6, 0)),
      rawTokenAmount(string(10000000, 0), number(6, 0)),
      rawTokenAmount(string(1000000000, 0), number(9, 0)),
      rawTokenAmount(string(20000000, 0), number(1, 0)),
      rawTokenAmount(string(5, 0), number(0, 0)),
      rawTokenAmount(string(2500000, 0), Undefined),
      rawTokenAmount(Undefined, number(6, 0)) }

TokenAmountShapes == { Undefined, number(25, 1), string(250, 2) }

Mints == { WSOL, USDC, PUMP }

SentTransfers ==
    { tokenTransfer("WalletA", "Other", mint, raw, amount) :
        mint \in Mints, raw \in RawShapes, amount \in TokenAmountShapes }

ReceivedTransfers ==
    { tokenTransfer("Other", "WalletA", mint, raw, amount) :
        mint \in Mints, raw \in RawShapes, amount \in TokenAmountShapes }

ForeignTransfer ==
    tokenTransfer("Other", "Another", USDC, rawTokenAmount(string(2500000, 0), number(6, 0)),
                  number(25, 1))

TokenTransferLists ==
    { <<ForeignTransfer>> }
    \cup { <<a>> : a \in SentTransfers }
    \cup { <<b>> : b \in ReceivedTransfers }
    \cup { <<a, b>> : a \in SentTransfers, b \in ReceivedTransfers }

AccountDataShapes ==
    { NoAccountData,
      accountData(<<balanceChange("Other", 7000)>>),
      accountData(<<balanceChange("Other", 7000), balanceChange("WalletA", 500000000)>>),
      accountData(<<balanceChange("WalletA", 0)>>),
      accountData(<<balanceChange("WalletA", 0 - 5000)>>) }

NativeTransferLists ==
    { <<>>,
      <<nativeTransfer("WalletA", "Other", 1500000000)>>,
      <<nativeTransfer("Other", "WalletA", 250000000)>>,
      <<nativeTransfer("WalletA", "Other", 1500000000),
        nativeTransfer("Other", "WalletA", 250000000),
        nativeTransfer("WalletA", "Another", 500000000)>> }

\* The single transactions analyzed one at a time
Transactions ==
    { tx("SWAP", tokens, <<>>, data) :
        tokens \in TokenTransferLists, data \in AccountDataShapes }
    \cup { tx(type, <<>>, natives, data) :
             type \in {"SWAP", "TRANSFER"}, natives \in NativeTransferLists,
             data \in AccountDataShapes }

----------------------------------------------------------------------------
(* The analysis of a feed of one transaction *)

InitSwap ==
    /\ transaction \in Transactions
    /\ wallet \in Wallets
    /\ analyzed = NotAnalyzed
    /\ asked = NotAsked
    /\ quoted = NotQuoted
    /\ priceCache = <<>>
    /\ now = 0
    /\ ticks = 0
    /\ tasks = <<>>
    /\ started = 0
    /\ inFlightMax = 1
    /\ ops = <<>>
    /\ opsStarted = 0

\* analyzeWallet(wallet) when the feed answers with the one transaction
AnalyzeSwap ==
    /\ analyzed = NotAnalyzed
    /\ analyzed' = analyzeWallet(heliusBody("array", <<transaction>>), wallet)
    /\ UNCHANGED <<transaction, wallet, now, ticks, priceVars, walletVars, quoteVars>>

NextSwap == AnalyzeSwap

SpecSwap == InitSwap /\ [][NextSwap]_vars

----------------------------------------------------------------------------
(* The report and the replies of the wallet tools *)

\* formatToken of generateEndOfDayReport: the tokenMap, else the first four and
\* the last four characters of the mint, tabulated for the mints that occur
formatToken(mint) ==
    IF mint = "undefined" THEN "Unknown"
    ELSE IF mint = WSOL THEN "SOL"
    ELSE IF mint = USDC THEN "USDC"
    ELSE IF mint = PUMP THEN "Giws...pump"
    ELSE IF mint = "SOL" THEN "SOL...SOL"
    ELSE "...."

\* amount?.toFixed(6) || 'Unknown'
amountText(v) == IF v.ty = "absent" THEN lit("Unknown") ELSE toFixed(v, 6)

\* new Date(seconds * 1000).toLocaleString(): the date, named by its seconds
localeDate(seconds) == [date |-> seconds]

tradeText(trade) ==
    << localeDate(trade.timestamp), lit("\n   "),
       str(formatToken(trade.tokenIn)), lit(" -> "), str(formatToken(trade.tokenOut)),
       lit("\n   Amount: "), amountText(trade.amountIn), lit(" -> "),
       amountText(trade.amountOut),
       lit("\n   Source: "), str(trade.source), lit("\n  ") >>

RECURSIVE joinTrades(_)
joinTrades(trades) ==
    IF trades = <<>> THEN <<>>
    ELSE IF Len(trades) = 1 THEN tradeText(trades[1])
    ELSE tradeText(Head(trades)) \o <<lit("\n")>> \o joinTrades(Tail(trades))

\* The lines of the statistics that the three templates share
statLines(stats, largestLabel, largest) ==
    << lit("Profitable Trades: "), num(stats.profitableTrades),
       lit("Success Rate: "), fixedOf(stats.successRate.n, stats.successRate.d, 2), lit("%"),
       lit("Total P/L: "), toFixed(stats.totalProfitLoss, 4), lit(" SOL"),
       lit("Average Trade Size: "),
       fixedOf(stats.averageTradeSize.n, stats.averageTradeSize.d, 4), lit(" SOL"),
       lit(largestLabel), toFixed(largest, 4), lit(" SOL") >>

returned(text) == [kind |-> "returned", text |-> text]

\* WalletAnalyzer.generateEndOfDayReport, given what analyzeWallet came to
generateEndOfDayReport(analysis, walletAddress) ==
    IF analysis.kind = "stats"
    THEN returned(<< lit("=== Solana Wallet Trading Report ==="),
                     lit("Wallet: "), str(walletAddress),
                     lit("Total Swaps: "), num(analysis.totalTrades) >>
                  \o statLines(analysis, "Largest SOL Trade: ", analysis.largestSOLTrade)
                  \o << lit("Recent Trades:") >>
                  \o joinTrades(SubSeq(analysis.tradeHistory, 1,
                                       IF Len(analysis.tradeHistory) < 5
                                       THEN Len(analysis.tradeHistory) ELSE 5)))
    ELSE returned(<< lit("Error generating report: "), lit("Error: ") >>
                  \o analysis.message
                  \o << lit(". Try checking only the last few transactions.") >>)

NoReply == [kind |-> "none"]

reply(isError, text, time) == [kind |-> "reply", isError |-> isError, text |-> text, at |-> time]

\* The analyzeTrades tool once the race has a winner
analyzeTradesReply(outcome, walletAddress, time) ==
    IF outcome.kind = "stats"
    THEN reply(FALSE,
               << lit("Trading Analysis for "), str(walletAddress), lit(":"),
                  lit("- Total Swaps: "), num(outcome.totalTrades) >>
               \o statLines(outcome, "Largest SOL Trade: ", outcome.largestSOLTrade),
               time)
    ELSE reply(TRUE,
               << lit("Error analyzing trades: ") >> \o outcome.message
               \o << lit(". Try again with a wallet that has fewer transactions.") >>,
               time)

\* The getEndOfDayReport tool once generateEndOfDayReport has settled
getEndOfDayReportReply(report, time) ==
    IF report.kind = "returned"
    THEN reply(FALSE, report.text, time)
    ELSE reply(TRUE, << lit("Error generating report: ") >> \o report.message, time)

\* The walletAnalysis resource once analyzeWallet has settled
walletAnalysisReply(outcome, walletAddress, time) ==
    IF outcome.kind = "stats"
    THEN reply(FALSE,
               << lit("Trading Analysis for "), str(walletAddress), lit(":"),
                  lit("- Total Trades: "), num(outcome.totalTrades) >>
               \o statLines(outcome, "Largest Trade: ", outcome.largestTrade),
               time)
    ELSE reply(FALSE, << lit("Error analyzing wallet: ") >> \o outcome.message, time)

----------------------------------------------------------------------------
(* The wallet operations of the server: the analyzeTrades tool, the          *)
(* getEndOfDayReport tool and the walletAnalysis resource.  An operation     *)
(* starts one request for the transaction history and waits; only            *)
(* analyzeTrades arms a timer before it waits.                               *)

MaxWalletTicks == 4

MaxOps == 2

MaxFeedLen == 2

requestTimeout == 30000

raceTimeout == 20000

WalletTickSteps == {10000}

profitableSwap ==
    tx("SWAP",
       << tokenTransfer("WalletA", "Other", USDC,
                        rawTokenAmount(string(2500000, 0), number(6, 0)), number(25, 1)),
          tokenTransfer("Other", "WalletA", WSOL,
                        rawTokenAmount(string(10000000, 0), number(6, 0)), number(10, 0)) >>,
       <<>>,
       accountData(<<balanceChange("WalletA", 500000000)>>))

losingSwap ==
    tx("SWAP",
       << tokenTransfer("WalletA", "Other", WSOL,
                        rawTokenAmount(string(1000000000, 0), number(9, 0)), number(1, 0)),
          tokenTransfer("Other", "WalletA", USDC,
                        rawTokenAmount(string(2500000, 0), number(6, 0)), number(25, 1)) >>,
       <<>>,
       accountData(<<balanceChange("WalletA", 0 - 5000)>>))

nativeSwap ==
    tx("SWAP", <<>>,
       << nativeTransfer("WalletA", "Other", 1500000000),
          nativeTransfer("Other", "WalletA", 250000000) >>,
       NoAccountData)

foreignSwap == tx("SWAP", <<ForeignTransfer>>, <<>>, NoAccountData)

plainTransfer ==
    tx("TRANSFER", <<>>, <<nativeTransfer("WalletA", "Other", 1500000000)>>, NoAccountData)

TxSamples == {profitableSwap, losingSwap, nativeSwap, foreignSwap, plainTransfer, NoTransaction}

Feeds == UNION { [1..n -> TxSamples] : n \in 0..MaxFeedLen }

NoResponse == [kind |-> "pending", message |-> "", data |-> "none", feed |-> <<>>]

\* What the request can settle with when it has been pending for age ms:
\* axios rejects with its timeout message when requestTimeout has passed
HeliusResponses(age) ==
    IF age >= requestTimeout
    THEN {heliusError("timeout of 30000ms exceeded")}
    ELSE {heliusError(m) : m \in HeliusErrors \ {"timeout of 30000ms exceeded"}}
         \cup {heliusBody("array", feed) : feed \in Feeds}
         \cup {heliusBody(data, <<>>) : data \in {"null", "string", "object"}}

timeoutError == thrown(<<lit("Analysis timed out after 20 seconds")>>)

startOp(kind, walletAddress, timer) ==
    [kind |-> kind, wallet |-> walletAddress, startedAt |-> now, timer |-> timer,
     response |-> NoResponse, analysis |-> NotAnalyzed, reply |-> NoReply, fetches |-> 1]

canStart == opsStarted < MaxOps /\ Len(ops) < inFlightMax

\* analyzeTrades: setTimeout(reject, 20000), then analyzeWallet up to axios.get
CallAnalyzeTrades ==
    \E walletAddress \in Wallets :
        /\ canStart
        /\ ops' = Append(ops, startOp("analyzeTrades", walletAddress, "armed"))
        /\ opsStarted' = opsStarted + 1
        /\ UNCHANGED <<now, ticks, priceVars, swapVars, quoteVars>>

\* getEndOfDayReport: generateEndOfDayReport up to axios.get of analyzeWallet
CallGetEndOfDayReport ==
    \E walletAddress \in Wallets :
        /\ canStart
        /\ ops' = Append(ops, startOp("getEndOfDayReport", walletAddress, "none"))
        /\ opsStarted' = opsStarted + 1
        /\ UNCHANGED <<now, ticks, priceVars, swapVars, quoteVars>>

\* wallet://{address}/analysis: analyzeWallet up to axios.get
ReadWalletAnalysis ==
    \E walletAddress \in Wallets :
        /\ canStart
        /\ ops' = Append(ops, startOp("walletAnalysis", walletAddress, "none"))
        /\ opsStarted' = opsStarted + 1
        /\ UNCHANGED <<now, ticks, priceVars, swapVars, quoteVars>>

\* What the operation answers when analyzeWallet has settled with analysis
replyOf(op, analysis, time) ==
    IF op.kind = "analyzeTrades" THEN analyzeTradesReply(analysis, op.wallet, time)
    ELSE IF op.kind = "getEndOfDayReport"
    THEN getEndOfDayReportReply(generateEndOfDayReport(analysis, op.wallet), time)
    ELSE walletAnalysisReply(analysis, op.wallet, time)

\* The request settles: analyzeWallet runs to its end, and the operation
\* answers unless the race has been lost to the timer before
FetchSettles ==
    \E i \in 1..Len(ops) :
        /\ ops[i].response.kind = "pending"
        /\ \E response \in HeliusResponses(now - ops[i].startedAt) :
              LET analysis == analyzeWallet(response, ops[i].wallet)
              IN  ops' = [ops EXCEPT ![i].response = response,
                                     ![i].analysis = analysis,
                                     ![i].reply = IF ops[i].reply = NoReply
                                                  THEN replyOf(ops[i], analysis, now)
                                                  ELSE ops[i].reply]
        /\ UNCHANGED <<opsStarted, now, ticks, priceVars, swapVars, quoteVars>>

\* The timer of analyzeTrades fires: the race is decided for the timer unless
\* the operation has answered already
DeadlineFires ==
    \E i \in 1..Len(ops) :
        /\ ops[i].timer = "armed"
        /\ now >= ops[i].startedAt + raceTimeout
        /\ ops' = [ops EXCEPT ![i].timer = "fired",
                              ![i].reply = IF ops[i].reply = NoReply
                                           THEN analyzeTradesReply(timeoutError,
                                                                   ops[i].wallet, now)
                                           ELSE ops[i].reply]
        /\ UNCHANGED <<opsStarted, now, ticks, priceVars, swapVars, quoteVars>>

\* Nothing of the operation is left: answered, request settled, no timer armed
OperationEnds ==
    \E i \in 1..Len(ops) :
        /\ ops[i].reply # NoReply
        /\ ops[i].response.kind # "pending"
        /\ ops[i].timer # "armed"
        /\ ops' = SubSeq(ops, 1, i - 1) \o SubSeq(ops, i + 1, Len(ops))
        /\ UNCHANGED <<opsStarted, now, ticks, priceVars, swapVars, quoteVars>>

\* A timer that is due or a request that has reached its timeout acts before
\* time passes
due(op) ==
    \/ op.timer = "armed" /\ now >= op.startedAt + raceTimeout
    \/ op.response.kind = "pending" /\ now >= op.startedAt + requestTimeout

WalletTick ==
    \E d \in WalletTickSteps :
        /\ ticks < MaxWalletTicks
        /\ \A i \in 1..Len(ops) : ~ due(ops[i])
        /\ now' = now + d
        /\ ticks' = ticks + 1
        /\ UNCHANGED <<priceVars, walletVars, swapVars, quoteVars>>

InitWallet ==
    /\ ops = <<>>
    /\ opsStarted = 0
    /\ now = 0
    /\ ticks = 0
    /\ priceCache = <<>>
    /\ tasks = <<>>
    /\ started = 0
    /\ inFlightMax = 1
    /\ transaction = NoTransaction
    /\ wallet = ""
    /\ analyzed = NotAnalyzed
    /\ asked = NotAsked
    /\ quoted = NotQuoted

NextWallet ==
    \/ CallAnalyzeTrades
    \/ CallGetEndOfDayReport
    \/ ReadWalletAnalysis
    \/ FetchSettles
    \/ DeadlineFires
    \/ OperationEnds
    \/ WalletTick

SpecWallet == InitWallet /\ [][NextWallet]_vars

----------------------------------------------------------------------------
(* Properties of the wallet analyzer and of the wallet operations *)

\* C6: every WalletStats returned by analyzeWallet has successRate = 0 and
\* averageTradeSize = 0 when totalTrades = 0, and otherwise
\* successRate = 100 * profitableTrades / totalTrades and
\* averageTradeSize = totalProfitLoss / totalTrades.
C6_RatesFollowFromTheCounts ==
    \A i \in 1..Len(ops) :
        LET stats == ops[i].analysis
        IN  stats.kind = "stats" =>
              IF stats.totalTrades = 0
              THEN stats.successRate.n = 0 /\ stats.averageTradeSize.n = 0
              ELSE /\ stats.successRate.n * stats.totalTrades
                        = 100 * stats.profitableTrades * stats.successRate.d
                   /\ stats.averageTradeSize.n * pow10(stats.totalProfitLoss.e)
                        * stats.totalTrades
                        = stats.totalProfitLoss.m * stats.averageTradeSize.d

C6_Witness ==
    \E i \in 1..Len(ops) :
        /\ ops[i].analysis.kind = "stats"
        /\ ops[i].analysis.totalTrades = 2
        /\ ops[i].analysis.profitableTrades = 1
        /\ ops[i].analysis.totalProfitLoss = number(5, 1)

\* The single transaction is a swap in which the wallet sends a raw amount with
\* decimals and receives a raw amount with decimals of another mint, the
\* received amount not above the clamp threshold
rawSwapCase ==
    /\ analyzed # NotAnalyzed
    /\ transaction.type = "SWAP"
    /\ Len(transaction.tokenTransfers) = 2
    /\ LET sent == transaction.tokenTransfers[1]
           received == transaction.tokenTransfers[2]
       IN  /\ sent.fromUserAccount = wallet
           /\ received.toUserAccount = wallet
           /\ sent.mint # received.mint
           /\ sent.rawTokenAmount.present
           /\ sent.rawTokenAmount.tokenAmount.ty = "string"
           /\ sent.rawTokenAmount.decimals.ty = "number"
           /\ received.rawTokenAmount.present
           /\ received.rawTokenAmount.tokenAmount.ty = "string"
           /\ received.rawTokenAmount.decimals.ty = "number"
           /\ ~ greater(number(received.rawTokenAmount.tokenAmount.m,
                               received.rawTokenAmount.decimals.m),
                        number(1000000, 0))

\* C7: for a feed of one SWAP transaction in which the wallet sends raw r1 with
\* decimals d1 and receives raw r2 with decimals d2 of a different mint (not
\* above the clamp threshold), analyzeWallet gives exactly one record with
\* amountIn = r1 / 10^d1, amountOut = r2 / 10^d2, and totalTrades = 1.
C7_RawAmountsAreScaledByTheirDecimals ==
    rawSwapCase =>
        LET sent == transaction.tokenTransfers[1].rawTokenAmount
            received == transaction.tokenTransfers[2].rawTokenAmount
        IN  /\ analyzed.kind = "stats"
            /\ analyzed.totalTrades = 1
            /\ Len(analyzed.tradeHistory) = 1
            /\ analyzed.tradeHistory[1].amountIn = number(sent.tokenAmount.m, sent.decimals.m)
            /\ analyzed.tradeHistory[1].amountOut
                 = number(received.tokenAmount.m, received.decimals.m)

\* C8: generateEndOfDayReport never throws, and the text it returns contains
\* the wallet address, whatever the analysis came to (trades, no trades, or a
\* failure).
C8_ReportAlwaysNamesTheWallet ==
    \A i \in 1..Len(ops) :
        (ops[i].kind = "getEndOfDayReport" /\ ops[i].response.kind # "pending") =>
            LET report == generateEndOfDayReport(ops[i].analysis, ops[i].wallet)
            IN  /\ report.kind = "returned"
                /\ mentions(report.text, ops[i].wallet)

\* The request failed: it was rejected, or its body is no list of transactions
fetchFailed(response) ==
    \/ response.kind = "error"
    \/ response.kind = "response" /\ response.data # "array"

\* C9: when the fetch of the transaction history fails, analyzeWallet ends in
\* an error whose message names the wallet address, returns no statistics,
\* and has made exactly one request.
C9_FetchFailureNamesTheWallet ==
    \A i \in 1..Len(ops) :
        fetchFailed(ops[i].response) =>
            /\ ops[i].analysis.kind = "thrown"
            /\ mentions(ops[i].analysis.message, ops[i].wallet)
            /\ ops[i].fetches = 1

\* C10: every wallet operation is raced against a deadline of 20 s: an
\* operation that has not answered 20 s after its start answers at that
\* point, so none is unanswered later and none answers later; and an
\* operation answers once, a later result leaving the answer as it is.
C10_EveryWalletOperationAnswersWithinTheDeadline ==
    \A i \in 1..Len(ops) :
        /\ ops[i].reply = NoReply => now - ops[i].startedAt <= raceTimeout
        /\ ops[i].reply # NoReply => ops[i].reply.at - ops[i].startedAt <= raceTimeout

\* The entry of the feed is a transaction record
isRecord(entry) == ~ entry.isNull

\* C11: a record of the feed that cannot be parsed into a trade (a null entry
\* among them) is left out and never aborts analyzeWallet: the analysis of a
\* feed is the statistics of the same feed without such records.
C11_UnparsableRecordsAreLeftOut ==
    \A i \in 1..Len(ops) :
        (ops[i].response.kind = "response" /\ ops[i].response.data = "array") =>
            /\ ops[i].analysis.kind = "stats"
            /\ ops[i].analysis
                 = analyzeWallet(heliusBody("array", SelectSeq(ops[i].response.feed, isRecord)),
                                 ops[i].wallet)

\* The entry of the feed is a transaction tagged SWAP
isSwap(entry) == ~ entry.isNull /\ entry.type = "SWAP"

isTrade(tradeInfo) == tradeInfo # NoTrade

positive(tradeInfo) ==
    tradeInfo.profitLoss.ty = "number" /\ greater(tradeInfo.profitLoss, Zero)

\* The successful extractions of the SWAP transactions of a feed, in feed order
extractions(feed, walletAddress) ==
    LET swaps == SelectSeq(feed, isSwap)
    IN  SelectSeq([k \in 1..Len(swaps) |-> extractSwapInfo(swaps[k], walletAddress)], isTrade)

RECURSIVE sumProfitLoss(_)
sumProfitLoss(trades) ==
    IF trades = <<>> THEN Zero
    ELSE plus(Head(trades).profitLoss, sumProfitLoss(Tail(trades)))

\* The statistics are those of their own trade history
countsFollowHistory(stats) ==
    /\ stats.totalTrades = Len(stats.tradeHistory)
    /\ stats.profitableTrades = Len(SelectSeq(stats.tradeHistory, positive))
    /\ stats.profitableTrades <= stats.totalTrades
    /\ stats.successRate.n >= 0
    /\ stats.successRate.n <= 100 * stats.successRate.d
    /\ stats.totalProfitLoss = sumProfitLoss(SelectSeq(stats.tradeHistory, positive))
    /\ stats.totalProfitLoss.m >= 0

\* C16: for every feed analyzeWallet returns statistics whose tradeHistory is
\* exactly the successful extractions of the SWAP transactions in feed order,
\* with totalTrades its length, profitableTrades the number of records with
\* profitLoss > 0 (so at most totalTrades, and 0 <= successRate <= 100) and
\* totalProfitLoss the sum of the positive profitLoss values (so >= 0).
C16_StatsAreThoseOfTheExtractions ==
    \A i \in 1..Len(ops) :
        (ops[i].response.kind = "response" /\ ops[i].response.data = "array") =>
            /\ ops[i].analysis.kind = "stats"
            /\ ops[i].analysis.tradeHistory
                 = extractions(ops[i].response.feed, ops[i].wallet)
            /\ countsFollowHistory(ops[i].analysis)

\* The single transaction is a swap whose sent and received transfer carry
\* identical amount fields, an amount being present and not above the clamp
\* threshold
identicalAmountsCase ==
    /\ analyzed # NotAnalyzed
    /\ transaction.type = "SWAP"
    /\ Len(transaction.tokenTransfers) = 2
    /\ LET sent == transaction.tokenTransfers[1]
           received == transaction.tokenTransfers[2]
       IN  /\ sent.fromUserAccount = wallet
           /\ received.toUserAccount = wallet
           /\ sent.rawTokenAmount = received.rawTokenAmount
           /\ sent.tokenAmount = received.tokenAmount
           /\ sent.rawTokenAmount.present => sent.rawTokenAmount.tokenAmount.ty = "string"
           /\ ~ sent.rawTokenAmount.present => sent.tokenAmount.ty # "absent"
           /\ ~ greater(amountInOf(sent), number(1000000, 0))

\* C17: amountOut of the received transfer follows the priority rule of
\* amountIn (raw amount / 10^decimals, else the numeric amount as it is, else
\* the string amount parsed), so a sent and a received transfer with identical
\* amount fields give amountIn = amountOut below the clamp threshold.
C17_AmountOutFollowsTheRuleOfAmountIn ==
    identicalAmountsCase =>
        /\ analyzed.kind = "stats"
        /\ Len(analyzed.tradeHistory) = 1
        /\ analyzed.tradeHistory[1].amountOut = amountInOf(transaction.tokenTransfers[2])
        /\ analyzed.tradeHistory[1].amountOut = analyzed.tradeHistory[1].amountIn

\* The decimals of a raw amount: the field when it is present, else 6
decimalsOfClaim(raw) == IF raw.decimals.ty = "number" THEN raw.decimals.m ELSE 6

\* The transfer carries a raw amount with its integer
hasRawAmount(transfer) ==
    transfer.rawTokenAmount.present /\ transfer.rawTokenAmount.tokenAmount.ty = "string"

\* rawInteger / 10^decimals of a transfer
scaledRaw(transfer) ==
    number(transfer.rawTokenAmount.tokenAmount.m, decimalsOfClaim(transfer.rawTokenAmount))

\* C18: when a transfer has a raw amount, the amount recorded is
\* rawInteger / 10^decimals for every decimals value that is present
\* (decimals = 0 gives the raw integer itself); 6 is used only when the
\* decimals field is absent.
C18_RawAmountUsesItsDecimals ==
    (analyzed # NotAnalyzed /\ analyzed.kind = "stats" /\ Len(analyzed.tradeHistory) = 1) =>
        LET sent == firstFrom(transaction.tokenTransfers, wallet)
            received == firstTo(transaction.tokenTransfers, wallet)
            trade == analyzed.tradeHistory[1]
        IN  /\ (sent # <<>> /\ hasRawAmount(sent[1])) =>
                  trade.amountIn = scaledRaw(sent[1])
            /\ (received # <<>> /\ hasRawAmount(received[1])
                  /\ ~ greater(scaledRaw(received[1]), number(1000000, 0))) =>
                  trade.amountOut = scaledRaw(received[1])

\* The profit/loss of the three cases for a record of transaction t
profitLossOfClaim(t, walletAddress, trade) ==
    LET mine == {k \in 1..Len(t.accountData.entries) :
                    t.accountData.entries[k].account = walletAddress}
        delta == IF mine = {} THEN 0
                 ELSE t.accountData.entries[CHOOSE k \in mine : \A j \in mine : k <= j]
                        .nativeBalanceChange
    IN  IF delta > 0 THEN number(delta, 9)
        ELSE IF trade.tokenOut = WSOL /\ trade.tokenIn # WSOL THEN number(1, 3)
        ELSE number(0 - 1, 3)

\* C19: every record extracted from token transfers has a profitLoss of one
\* of three cases: the wallet's native balance delta / 10^9 when the delta is
\* positive; else +0.001 when tokenOut is the wrapped native mint and tokenIn
\* is not; otherwise -0.001, also when the transaction has no balance delta
\* of the wallet.
C19_ProfitLossIsOneOfThreeCases ==
    (analyzed # NotAnalyzed /\ analyzed.kind = "stats" /\ Len(analyzed.tradeHistory) = 1
       /\ Len(transaction.tokenTransfers) > 0) =>
        analyzed.tradeHistory[1].profitLoss
            = profitLossOfClaim(transaction, wallet, analyzed.tradeHistory[1])

\* No token transfer and no native transfer of the transaction is sent by or
\* received by the wallet
noTransferOfWallet ==
    /\ firstFrom(transaction.tokenTransfers, wallet) = <<>>
    /\ firstTo(transaction.tokenTransfers, wallet) = <<>>
    /\ filterFrom(transaction.nativeTransfers, wallet) = <<>>
    /\ filterTo(transaction.nativeTransfers, wallet) = <<>>

\* C20: a SWAP transaction with no transfer sent by or received by the wallet
\* (such as a token-transfer list whose entries all belong to other accounts)
\* yields absent: no record in tradeHistory, not counted in totalTrades.
C20_SwapWithoutWalletTransferIsAbsent ==
    (analyzed # NotAnalyzed /\ transaction.type = "SWAP" /\ noTransferOfWallet) =>
        /\ analyzed.kind = "stats"
        /\ analyzed.tradeHistory = <<>>
        /\ analyzed.totalTrades = 0

\* The lamports of the native transfers at the places idx
RECURSIVE lamports(_, _)
lamports(transfers, idx) ==
    IF idx = {} THEN 0
    ELSE LET k == CHOOSE k \in idx : TRUE
         IN  transfers[k].amount + lamports(transfers, idx \ {k})

\* C21: for a SWAP transaction with no token transfers: when the wallet is
\* both a sender and a receiver of native transfers, the record has
\* tokenIn = tokenOut = "SOL", amountIn = (lamports the wallet sent) / 10^9 and
\* amountOut = (lamports the wallet received) / 10^9; when the wallet appears
\* in one direction only or in none, the transaction yields absent.
C21_NativeFallback ==
    (analyzed # NotAnalyzed /\ transaction.type = "SWAP"
       /\ Len(transaction.tokenTransfers) = 0) =>
        LET natives == transaction.nativeTransfers
            sent == {k \in 1..Len(natives) : natives[k].fromUserAccount = wallet}
            received == {k \in 1..Len(natives) : natives[k].toUserAccount = wallet}
        IN  /\ analyzed.kind = "stats"
            /\ IF sent # {} /\ received # {}
               THEN /\ Len(analyzed.tradeHistory) = 1
                    /\ analyzed.totalTrades = 1
                    /\ analyzed.tradeHistory[1].tokenIn = "SOL"
                    /\ analyzed.tradeHistory[1].tokenOut = "SOL"
                    /\ analyzed.tradeHistory[1].amountIn
                         = number(lamports(natives, sent), 9)
                    /\ analyzed.tradeHistory[1].amountOut
                         = number(lamports(natives, received), 9)
               ELSE /\ analyzed.tradeHistory = <<>>
                    /\ analyzed.totalTrades = 0

\* A record of the fallback for a wallet that sent 1.5 and 0.5 SOL in two
\* transfers and received 0.25 SOL
C21_Witness ==
    /\ analyzed # NotAnalyzed
    /\ Len(transaction.tokenTransfers) = 0
    /\ Len(transaction.nativeTransfers) = 3
    /\ analyzed.kind = "stats"
    /\ Len(analyzed.tradeHistory) = 1
    /\ analyzed.tradeHistory[1].tokenIn = "SOL"
    /\ analyzed.tradeHistory[1].amountIn = number(2, 0)
    /\ analyzed.tradeHistory[1].amountOut = number(25, 2)

\* The greatest of a set of amounts, 0 for the empty set
greatest(amounts) ==
    CHOOSE a \in amounts \cup {Zero} : \A b \in amounts : ~ greater(b, a)

\* The amounts sold of the records that satisfy the test on tokenIn
amountsIn(trades, mints) ==
    { trades[k].amountIn : k \in {j \in 1..Len(trades) :
                                     /\ trades[j].amountIn.ty = "number"
                                     /\ trades[j].tokenIn \in mints} }

tokensIn(trades) == { trades[k].tokenIn : k \in 1..Len(trades) }

----------------------------------------------------------------------------
(* Overlapping getCryptoPrice calls: the host keeps two invocations open, so *)
(* a second call can start while the first is suspended at a provider.  The  *)
(* handlers switch only at their awaits, which is what the actions do.       *)

InitOverlap ==
    /\ priceCache = <<>>
    /\ now = 0
    /\ ticks = 0
    /\ tasks = <<>>
    /\ started = 0
    /\ inFlightMax = 2
    /\ ops = <<>>
    /\ opsStarted = 0
    /\ transaction = NoTransaction
    /\ wallet = ""
    /\ analyzed = NotAnalyzed
    /\ asked = NotAsked
    /\ quoted = NotQuoted

NextOverlap ==
    \/ CallGetCryptoPrice
    \/ PrimaryResponds
    \/ SecondaryResponds
    \/ TertiaryResponds
    \/ Reply
    \/ Tick

SpecOverlap == InitOverlap /\ [][NextOverlap]_vars

\* The quote that the provider of pc gives for id with answer r
quoteOf(pc, id, r) ==
    IF pc = "primary" THEN primaryQuote(id, r)
    ELSE IF pc = "secondary" THEN secondaryQuote(id, r)
    ELSE tertiaryQuote(id, r)

\* C23: with calls interleaved at their provider requests the cache stays
\* consistent: a call that started before another call of the same id wrote
\* the cache has missed and makes its own provider calls; whatever entry the
\* cache holds when its provider answers, it returns the quote of its own
\* answer and writes a complete entry (that quote, the present time), which
\* is then the entry of the id; the entries of other ids stay as they are.
C23_OverlappingCallsKeepTheCacheConsistent ==
    /\ cacheWellFormed
    /\ \A i \in 1..Len(tasks) :
          LET t == tasks[i]
          IN  t.pc \in Awaiting =>
                /\ t.seen = <<>> \/ t.age >= CACHE_TTL
                /\ t.calls = SubSeq(ProviderOrder, 1, pending(t.pc))
                /\ \A r \in answers(t.pc) :
                      LET out == continue(t, r)
                      IN  IF accepted(t.pc, r)
                          THEN /\ resolved(t, out.task).value = quoteOf(t.pc, t.id, r)
                               /\ resolved(t, out.task).calls = t.calls
                               /\ DOMAIN out.cache = DOMAIN priceCache \cup {t.id}
                               /\ out.cache[t.id]
                                    = [data |-> quoteOf(t.pc, t.id, r), timestamp |-> now]
                               /\ \A k \in DOMAIN priceCache \ {t.id} :
                                     out.cache[k] = priceCache[k]
                          ELSE out.cache = priceCache

\* Two calls of the same id that both started on an empty cache: one has
\* returned and written its quote, the other is still waiting for a provider
C23_Witness ==
    \E i, j \in 1..Len(tasks) :
        /\ i # j
        /\ tasks[j].pc = "done"
        /\ tasks[j].results[1].seen = <<>>
        /\ tasks[j].results[1].value.kind = "quote"
        /\ tasks[i].pc \in Awaiting
        /\ tasks[i].seen = <<>>
        /\ tasks[i].id = tasks[j].results[1].id
        /\ tasks[i].id \in DOMAIN priceCache
        /\ priceCache[tasks[i].id].data = tasks[j].results[1].value
        /\ now - priceCache[tasks[i].id].timestamp < CACHE_TTL

====
